---- MODULE Spec2Model ----
(***************************************************************************)
(* Old English Case Messenger (src/src/App.tsx): the declension data       *)
(* model, the answer matcher inside checkAnswer, and the score / level /   *)
(* candidate state of the CaseMessenger component with its deferred        *)
(* level-advance timer.                                                    *)
(*                                                                         *)
(* JavaScript arrays are 0-based; the sequences below are 1-based, so      *)
(* SCENARIOS[currentLevel] is scenarios[currentLevel + 1].  An object      *)
(* reference to a DeclinationOfNoun is modelled by its base string, the    *)
(* key under which DeclinationDictionary holds it.                         *)
(***************************************************************************)
EXTENDS Integers, Sequences, FiniteSets, TLC

VARIABLES
    score,            \* useState(0), App.tsx:328
    currentLevel,     \* useState(0), App.tsx:329
    selectedWordArr,  \* useState([]), App.tsx:334: the learner's candidate
    feedback,         \* useState(''), App.tsx:338
    timers,           \* pending setTimeout callbacks, each holding the
                      \* currentLevel its closure captured (App.tsx:382)
    scenarios,        \* the scenario list checkAnswer reads (App.tsx:282)
    windowClicks,     \* clicks handled since the oldest pending timer was set
    input,            \* a call of a constructor or accessor of the data model
    output,           \* what that call returned, or Thrown
    event             \* the last handler that ran and, for checkAnswer,
                      \* how the evaluation of isCorrect ended

vars == <<score, currentLevel, selectedWordArr, feedback, timers, scenarios,
          windowClicks, input, output, event>>

----------------------------------------------------------------------------
(* Bounds of the exploration *)

\* how many tokens beyond the target's length the learner may pile up
MaxExtra == 1
\* how many clicks the learner gets in before a pending timer (2000 ms) fires
MaxWindowClicks == 2
\* longest candidate and longest target of the matcher's input space
MaxSeqLen == 2
\* longest raw string handed to a constructor of the data model
MaxStrLen == 2

----------------------------------------------------------------------------
(* Data model *)

\* what JavaScript yields for an absent property or an index out of range
undefined == [kind |-> "undefined"]

\* a constructor that threw
Thrown == [kind |-> "error"]

GrammaticalCase == {"nominative", "accusative", "genitive", "dative"}

GrammaticalNumber == {"singular", "dual", "plural"}

\* no call of the data model is being looked at
NoCall == [kind |-> "none"]

\* the whitespace characters of the strings built here, among those /\s/ matches
Whitespace == {" ", "\t", "\n"}

\* /\s/.test(str)
containsWhitespace(str) ==
    \E i \in 1..Len(str) : SubSeq(str, i, i) \in Whitespace

\* WordSimple that only refuses the empty string
WordSimpleNoWhitespaceTest(str) ==
    IF Len(str) <= 0 THEN Thrown ELSE [kind |-> "word", value |-> str]

\* new WordSimple(str): throws on an empty string and on one with whitespace
WordSimple(str) ==
    IF Len(str) <= 0 \/ containsWhitespace(str)
    THEN Thrown
    ELSE [kind |-> "word", value |-> str]

\* keeps the members that are present (truthy) and wraps each as a word; a
\* member that is no word makes new WordSimple, and so the whole call, throw
ensureWordSimpleNumber(numberUnchecked) ==
    LET present == {k \in DOMAIN numberUnchecked : numberUnchecked[k] # ""}
        numberChecked == [key \in present |-> WordSimple(numberUnchecked[key])]
    IN  IF \E key \in present : numberChecked[key] = Thrown
        THEN Thrown
        ELSE numberChecked

DeclinationOfNoun(p) ==
    LET base         == WordSimple(p.base)
        nominative   == ensureWordSimpleNumber(p.nominative)
        genitive     == ensureWordSimpleNumber(p.genitive)
        dative       == ensureWordSimpleNumber(p.dative)
        accusative   == ensureWordSimpleNumber(p.accusative)
        instrumental == IF "instrumental" \in DOMAIN p
                        THEN ensureWordSimpleNumber(p.instrumental)
                        ELSE undefined
    IN  IF Thrown \in {base, nominative, genitive, dative, accusative, instrumental}
        THEN Thrown
        ELSE [base         |-> base,
              strength     |-> p.strength,
              gender       |-> p.gender,
              nominative   |-> nominative,
              genitive     |-> genitive,
              dative       |-> dative,
              accusative   |-> accusative,
              instrumental |-> instrumental]

\* declinationTable without the optional case
declinationTableMandatoryOnly(d) ==
    [nominative   |-> d.nominative,
     genitive     |-> d.genitive,
     dative       |-> d.dative,
     accusative   |-> d.accusative]

declinationTable(d) ==
    [nominative   |-> d.nominative,
     genitive     |-> d.genitive,
     dative       |-> d.dative,
     accusative   |-> d.accusative,
     instrumental |-> d.instrumental]

cyningSeed ==
    [base |-> "cyning", strength |-> "strong", gender |-> "masculine",
     nominative |-> [singular |-> "cyning",   plural |-> "cyningas"],
     accusative |-> [singular |-> "cyning",   plural |-> "cyningas"],
     genitive   |-> [singular |-> "cyninges", plural |-> "cyninga"],
     dative     |-> [singular |-> "cyninge",  plural |-> "cyningum"]]

biscopSeed ==
    [base |-> "biscop", strength |-> "strong", gender |-> "masculine",
     nominative |-> [singular |-> "biscop",   plural |-> "biscopas"],
     accusative |-> [singular |-> "biscop",   plural |-> "biscopas"],
     genitive   |-> [singular |-> "biscopes", plural |-> "biscopa"],
     dative     |-> [singular |-> "biscope",  plural |-> "biscopum"]]

DECLINATIONS == <<DeclinationOfNoun(cyningSeed), DeclinationOfNoun(biscopSeed)>>

\* DeclinationDictionary: the constructor indexes by base.value, a later
\* entry overwriting an earlier one; get returns undefined for a missing key
declinationDictionaryGet(key) ==
    LET hits == {i \in 1..Len(DECLINATIONS) : DECLINATIONS[i].base.value = key}
    IN  IF hits = {} THEN undefined
        ELSE DECLINATIONS[CHOOSE i \in hits : \A j \in hits : j <= i]

\* NounDeclined's constructor over the declination object d, which the new
\* object keeps as the reference ref: declinations[caseGram][number],
\* throwing when that number is not defined
NounDeclinedOf(d, ref, caseGram, number) ==
    LET numberInfo == d[caseGram]
    IN  IF number \notin DOMAIN numberInfo
        THEN Thrown
        ELSE [kind         |-> "noun",
              declinations |-> ref,
              caseGram     |-> caseGram,
              number       |-> number,
              value        |-> numberInfo[number].value]

\* new NounDeclined({declinations: declinationDictionary.get(key), ...})
NounDeclined(declinations, caseGram, number) ==
    NounDeclinedOf(declinationDictionaryGet(declinations), declinations,
                   caseGram, number)

SCENARIOS ==
    << [id |-> 1,
        correctPattern |->
            << WordSimple("se"),
               NounDeclined("cyning", "nominative", "singular"),
               WordSimple("grete"),
               WordSimple("þone"),
               NounDeclined("biscop", "accusative", "singular") >>] >>

----------------------------------------------------------------------------
(* The matcher: the isCorrect expression of checkAnswer *)

isNounDeclined(possibleNounDeclined) == possibleNounDeclined.kind = "noun"

\* At with the index shift between the two numberings left out
AtOffByOne(array, index) ==
    IF index + 1 \in 1..Len(array) THEN array[index + 1] ELSE undefined

\* array[index] of JavaScript, index counted from 1 here
At(array, index) ==
    IF index \in 1..Len(array) THEN array[index] ELSE undefined

\* everyCallback that also wants the two nouns to be the same noun
everyCallbackSameNoun(word, pattern) ==
    IF /\ isNounDeclined(word)
       /\ isNounDeclined(pattern)
       /\ word.declinations = pattern.declinations
       /\ word.caseGram = pattern.caseGram
       /\ word.number = pattern.number
    THEN "true"
    ELSE IF ~isNounDeclined(word) /\ ~isNounDeclined(pattern)
         THEN IF pattern = undefined
              THEN "throws"
              ELSE IF word.value = pattern.value THEN "true" ELSE "false"
         ELSE "false"

\* everyCallback that compares the surface strings whatever the kinds are
everyCallbackBySurface(word, pattern) ==
    IF pattern = undefined
    THEN IF isNounDeclined(word) THEN "false" ELSE "throws"
    ELSE IF word.value = pattern.value THEN "true" ELSE "false"

\* everyCallback that accepts any plain word where a plain word is expected
everyCallbackAnyPlain(word, pattern) ==
    IF /\ isNounDeclined(word)
       /\ isNounDeclined(pattern)
       /\ word.caseGram = pattern.caseGram
       /\ word.number = pattern.number
    THEN "true"
    ELSE IF ~isNounDeclined(word) /\ ~isNounDeclined(pattern)
         THEN IF pattern = undefined THEN "throws" ELSE "true"
         ELSE "false"

\* the callback of selectedWordArr.every: "true", "false", or "throws" when
\* .value is read from undefined
everyCallback(word, pattern) ==
    IF /\ isNounDeclined(word)
       /\ isNounDeclined(pattern)
       /\ word.caseGram = pattern.caseGram
       /\ word.number = pattern.number
    THEN "true"
    ELSE IF ~isNounDeclined(word) /\ ~isNounDeclined(pattern)
         THEN IF pattern = undefined
              THEN "throws"
              ELSE IF word.value = pattern.value THEN "true" ELSE "false"
         ELSE "false"

\* Array.prototype.every: left to right, stopping at the first callback that
\* does not return true
RECURSIVE every(_, _, _)
every(array, correctPattern, index) ==
    IF index > Len(array)
    THEN "true"
    ELSE LET r == everyCallback(array[index], At(correctPattern, index))
         IN  IF r = "true" THEN every(array, correctPattern, index + 1) ELSE r

\* isCorrect without the !!selectedWordArr.length conjunct
isCorrectNoLengthTest(array, correctPattern) == every(array, correctPattern, 1)

isCorrect(array, correctPattern) ==
    IF Len(array) = 0 THEN "false" ELSE every(array, correctPattern, 1)

----------------------------------------------------------------------------
(* The CaseMessenger component *)

FeedbackCorrect == "Correct! The case endings match the sentence meaning."

FeedbackTryAgain == "Try again! Check the case endings carefully."

Max(a, b) == IF a >= b THEN a ELSE b

Range(s) == {s[i] : i \in 1..Len(s)}

\* the scenario block, with all its buttons, is rendered
ScenarioShown == currentLevel < Len(scenarios)

currentPattern == scenarios[currentLevel + 1].correctPattern

\* the plain-word buttons: the correctPattern's WordSimple entries
shuffledWordSimples == {w \in Range(currentPattern) : w.kind = "word"}

\* the declension buttons: for every noun of the correctPattern, every case
\* of its declinationTable that is present, singular and plural
declensionButtons ==
    UNION { LET table == declinationTable(declinationDictionaryGet(w.declinations))
            IN  { NounDeclined(w.declinations, caseGram, number) :
                    caseGram \in {c \in DOMAIN table : table[c] # undefined},
                    number \in {"singular", "plural"} }
          : w \in {x \in Range(currentPattern) : isNounDeclined(x)} }

\* the buttons the modelled learner presses: those that yield a word-form of
\* the sentence being built
LearnerButtons ==
    {b \in shuffledWordSimples \cup declensionButtons : b \in Range(currentPattern)}

\* a click is handled: before any timer is pending the learner is not
\* limited; while one is pending only MaxWindowClicks clicks fit in the delay
Click ==
    /\ timers # <<>> => windowClicks < MaxWindowClicks
    /\ windowClicks' = IF timers # <<>> THEN windowClicks + 1 ELSE 0

\* handleWordSelection that puts the new word in front
handleWordSelectionInFront ==
    /\ ScenarioShown
    /\ Click
    /\ Len(selectedWordArr) < Len(currentPattern) + MaxExtra
    /\ \E word \in LearnerButtons :
         IF word = Thrown
         THEN /\ event' = [op |-> "selectToken", result |-> "throws"]
              /\ UNCHANGED selectedWordArr
         ELSE /\ event' = [op |-> "selectToken", result |-> "none"]
              /\ selectedWordArr' = <<word>> \o selectedWordArr
    /\ UNCHANGED <<score, currentLevel, feedback, timers, scenarios, input, output>>

handleWordSelection ==
    /\ ScenarioShown
    /\ Click
    /\ Len(selectedWordArr) < Len(currentPattern) + MaxExtra
    /\ \E word \in LearnerButtons :
         IF word = Thrown
         THEN \* new NounDeclined(...) threw inside onClick
              /\ event' = [op |-> "selectToken", result |-> "throws"]
              /\ UNCHANGED selectedWordArr
         ELSE /\ event' = [op |-> "selectToken", result |-> "none"]
              /\ selectedWordArr' = Append(selectedWordArr, word)
    /\ UNCHANGED <<score, currentLevel, feedback, timers, scenarios, input, output>>

\* removeToken with splice(index): everything from index on is removed
removeTokenToEnd ==
    /\ ScenarioShown
    /\ Click
    /\ \E index \in 1..Len(selectedWordArr) :
         selectedWordArr' = SubSeq(selectedWordArr, 1, index - 1)
    /\ event' = [op |-> "removeToken", result |-> "none"]
    /\ UNCHANGED <<score, currentLevel, feedback, timers, scenarios, input, output>>

\* onClick of a chip of "Your Sentence": splice(index, 1) on a copy
removeToken ==
    /\ ScenarioShown
    /\ Click
    /\ \E index \in 1..Len(selectedWordArr) :
         selectedWordArr' = SubSeq(selectedWordArr, 1, index - 1)
                            \o SubSeq(selectedWordArr, index + 1, Len(selectedWordArr))
    /\ event' = [op |-> "removeToken", result |-> "none"]
    /\ UNCHANGED <<score, currentLevel, feedback, timers, scenarios, input, output>>

\* a smaller reward
scoreIfCorrectFive == score + 5

scoreIfCorrect == score + 10

\* the penalty without its floor
scoreIfWrongNoFloor == score - 5

scoreIfWrong == Max(0, score - 5)

\* SCENARIOS[currentLevel]: undefined past the last scenario
currentScenario ==
    IF currentLevel + 1 \in DOMAIN scenarios
    THEN scenarios[currentLevel + 1]
    ELSE undefined

\* checkAnswer's isCorrect over currentScenario.correctPattern; past the last
\* scenario an empty candidate is false before the scenario is read, and any
\* other candidate ends in the TypeError of reading correctPattern of undefined
checkAnswerResult ==
    IF currentScenario # undefined
    THEN isCorrect(selectedWordArr, currentScenario.correctPattern)
    ELSE IF Len(selectedWordArr) = 0 THEN "false" ELSE "throws"

\* the body of checkAnswer
checkAnswerHandler ==
    /\ Click
    /\ LET result == checkAnswerResult
       IN  /\ event' = [op |-> "checkAnswer", result |-> result]
           /\ CASE result = "true" ->
                     /\ score' = scoreIfCorrect
                     /\ feedback' = FeedbackCorrect
                     /\ timers' = Append(timers, currentLevel)
                     /\ UNCHANGED <<currentLevel, selectedWordArr, scenarios, input, output>>
                [] result = "false" ->
                     /\ feedback' = FeedbackTryAgain
                     /\ score' = scoreIfWrong
                     /\ UNCHANGED <<currentLevel, selectedWordArr, timers, scenarios, input, output>>
                [] result = "throws" ->
                     \* the TypeError leaves the handler before any setState
                     UNCHANGED <<score, currentLevel, selectedWordArr, feedback,
                                 timers, scenarios, input, output>>

\* the Check Answer button rendered outside the scenario block
checkAnswerAlwaysRendered == checkAnswerHandler

\* onClick of the Check Answer button, which is inside the scenario block
checkAnswer ==
    /\ ScenarioShown
    /\ checkAnswerHandler

\* the callback that advances the level and leaves the rest for later
advanceLevelOnly ==
    /\ timers # <<>>
    /\ currentLevel' = Head(timers) + 1
    /\ timers' = Tail(timers)
    /\ windowClicks' = IF Tail(timers) = <<>> THEN 0 ELSE windowClicks
    /\ event' = [op |-> "advance", result |-> "none"]
    /\ UNCHANGED <<score, selectedWordArr, feedback, scenarios, input, output>>

\* advanceLevel as a functional update: one past the level at firing time
advanceLevelFromCurrent ==
    /\ timers # <<>>
    /\ currentLevel' = currentLevel + 1
    /\ selectedWordArr' = <<>>
    /\ feedback' = ""
    /\ timers' = Tail(timers)
    /\ windowClicks' = IF Tail(timers) = <<>> THEN 0 ELSE windowClicks
    /\ event' = [op |-> "advance", result |-> "none"]
    /\ UNCHANGED <<score, scenarios, input, output>>

\* advanceLevel that takes the scenario's 1-based id for its 0-based index
advanceLevelById ==
    /\ timers # <<>>
    /\ currentLevel' = scenarios[Head(timers) + 1].id + 1
    /\ selectedWordArr' = <<>>
    /\ feedback' = ""
    /\ timers' = Tail(timers)
    /\ windowClicks' = IF Tail(timers) = <<>> THEN 0 ELSE windowClicks
    /\ event' = [op |-> "advance", result |-> "none"]
    /\ UNCHANGED <<score, scenarios, input, output>>

\* the callback handed to setTimeout runs, with the level its closure captured
advanceLevel ==
    /\ timers # <<>>
    /\ currentLevel' = Head(timers) + 1
    /\ selectedWordArr' = <<>>
    /\ feedback' = ""
    /\ timers' = Tail(timers)
    /\ windowClicks' = IF Tail(timers) = <<>> THEN 0 ELSE windowClicks
    /\ event' = [op |-> "advance", result |-> "none"]
    /\ UNCHANGED <<score, scenarios, input, output>>

Init ==
    /\ score = 0
    /\ currentLevel = 0
    /\ selectedWordArr = <<>>
    /\ feedback = ""
    /\ timers = <<>>
    /\ scenarios = SCENARIOS
    /\ windowClicks = 0
    /\ input = NoCall
    /\ output = NoCall
    /\ event = [op |-> "init", result |-> "none"]

Next ==
    \/ handleWordSelection
    \/ removeToken
    \/ checkAnswer
    \/ advanceLevel

Spec == Init /\ [][Next]_vars

\* a timer that was set does fire: the event loop runs the callback once its
\* 2000 ms are over
FairSpec == Spec /\ WF_vars(advanceLevel)

----------------------------------------------------------------------------
(* The matcher on its own: checkAnswer applied once to a candidate and a
   target drawn from bounded sets *)

MatchTokens ==
    {WordSimple("se"), WordSimple("cyning"),
     NounDeclined("cyning", "nominative", "singular"),
     NounDeclined("cyning", "accusative", "singular"),
     NounDeclined("cyning", "nominative", "plural"),
     NounDeclined("biscop", "nominative", "singular")}

SeqsUpTo(S, n) == UNION {[1..k -> S] : k \in 0..n}

scenario1Pattern == SCENARIOS[1].correctPattern

\* scenario 1's sentence: as it is, its last two tokens swapped, one word
\* short, and one word too many
Scenario1Candidates ==
    {scenario1Pattern,
     SubSeq(scenario1Pattern, 1, 3) \o <<scenario1Pattern[5], scenario1Pattern[4]>>,
     SubSeq(scenario1Pattern, 1, 4),
     Append(scenario1Pattern, scenario1Pattern[1])}

InitMatch ==
    /\ score \in {0, 10}
    /\ currentLevel = 0
    /\ feedback = ""
    /\ timers = <<>>
    /\ windowClicks = 0
    /\ input = NoCall
    /\ output = NoCall
    /\ event = [op |-> "init", result |-> "none"]
    /\ \/ /\ selectedWordArr \in SeqsUpTo(MatchTokens, MaxSeqLen)
          /\ \E target \in SeqsUpTo(MatchTokens, MaxSeqLen) :
               scenarios = <<[id |-> 1, correctPattern |-> target]>>
       \/ /\ selectedWordArr \in Scenario1Candidates
          /\ scenarios = SCENARIOS

checkAnswerOnce ==
    /\ event.op = "init"
    /\ checkAnswer

NextMatch == checkAnswerOnce

SpecMatch == InitMatch /\ [][NextMatch]_vars

----------------------------------------------------------------------------
(* The data model on its own: one constructor or accessor applied once to an
   argument drawn from bounded sets *)

Letters == {"a", "b"}

Chars == Letters \cup {" ", "\t"}

\* the strings of at most n characters of C
RECURSIVE StringsOver(_, _)
StringsOver(C, n) ==
    IF n = 0 THEN {""}
    ELSE LET shorter == StringsOver(C, n - 1)
         IN  shorter \cup {str \o c : str \in shorter, c \in C}

RawStrings == StringsOver(Chars, MaxStrLen)

\* the raw strings that are words: not empty, letters only
LetterStrings == StringsOver(Letters, MaxStrLen) \ {""}

\* the raw strings that ensureWordSimpleNumber lets pass: the words, and the
\* empty string, which it skips
WordOrEmptyStrings == LetterStrings \cup {""}

\* the records handed in for one case: singular and plural, or with a dual
NumberParams(S) ==
    {[singular |-> sg, plural |-> pl] : sg \in S, pl \in S}
    \cup {[singular |-> "cyning", plural |-> "cyningas", dual |-> du] : du \in S}

WithInstrumental(p, n) ==
    [k \in DOMAIN p \cup {"instrumental"} |->
        IF k = "instrumental" THEN n ELSE p[k]]

\* Call(p) for some constructor argument p: a seed as it is, or the seed of
\* cyning with the forms of one case, its base, or an added instrumental
\* drawn from the strings S
ForSomeDeclinationParams(S, Call(_)) ==
    \/ \E p \in {cyningSeed, biscopSeed} : Call(p)
    \/ \E c \in GrammaticalCase, n \in NumberParams(S) :
          Call([cyningSeed EXCEPT ![c] = n])
    \/ \E str \in S : Call([cyningSeed EXCEPT !.base = str])
    \/ \E n \in NumberParams(S) : Call(WithInstrumental(cyningSeed, n))

DictionaryKeys == {"cyning", "biscop", "þegen"} \cup RawStrings

InitData ==
    /\ score = 0
    /\ currentLevel = 0
    /\ selectedWordArr = <<>>
    /\ feedback = ""
    /\ timers = <<>>
    /\ scenarios = SCENARIOS
    /\ windowClicks = 0
    /\ event = [op |-> "init", result |-> "none"]
    /\ output = NoCall
    /\ \/ \E str \in RawStrings : input = [op |-> "WordSimple", str |-> str]
       \/ ForSomeDeclinationParams(RawStrings,
             LAMBDA p : input = [op |-> "DeclinationOfNoun", params |-> p])
       \/ ForSomeDeclinationParams(WordOrEmptyStrings,
             LAMBDA p : /\ DeclinationOfNoun(p) # Thrown
                        /\ input = [op |-> "declinationTable", params |-> p])
       \/ ForSomeDeclinationParams(WordOrEmptyStrings,
             LAMBDA p : \E c \in GrammaticalCase, n \in GrammaticalNumber :
                 /\ DeclinationOfNoun(p) # Thrown
                 /\ input = [op |-> "NounDeclined", params |-> p,
                             caseGram |-> c, number |-> n])
       \/ \E key \in DictionaryKeys : input = [op |-> "get", key |-> key]

sessionVars ==
    <<score, currentLevel, selectedWordArr, feedback, timers, scenarios,
      windowClicks, event>>

constructWordSimple ==
    /\ output = NoCall
    /\ input.op = "WordSimple"
    /\ output' = WordSimple(input.str)
    /\ UNCHANGED <<input, sessionVars>>

constructDeclinationOfNoun ==
    /\ output = NoCall
    /\ input.op = "DeclinationOfNoun"
    /\ output' = DeclinationOfNoun(input.params)
    /\ UNCHANGED <<input, sessionVars>>

readDeclinationTable ==
    /\ output = NoCall
    /\ input.op = "declinationTable"
    /\ DeclinationOfNoun(input.params) # Thrown
    /\ output' = declinationTable(DeclinationOfNoun(input.params))
    /\ UNCHANGED <<input, sessionVars>>

constructNounDeclined ==
    /\ output = NoCall
    /\ input.op = "NounDeclined"
    /\ DeclinationOfNoun(input.params) # Thrown
    /\ output' = NounDeclinedOf(DeclinationOfNoun(input.params), input.params.base,
                                input.caseGram, input.number)
    /\ UNCHANGED <<input, sessionVars>>

dictionaryGet ==
    /\ output = NoCall
    /\ input.op = "get"
    /\ output' = declinationDictionaryGet(input.key)
    /\ UNCHANGED <<input, sessionVars>>

NextData ==
    \/ constructWordSimple
    \/ constructDeclinationOfNoun
    \/ readDeclinationTable
    \/ constructNounDeclined
    \/ dictionaryGet

SpecData == InitData /\ [][NextData]_vars

----------------------------------------------------------------------------
(* Properties *)

Checked == event.op = "checkAnswer"

SameLength == Len(selectedWordArr) = Len(currentPattern)

Positions == 1..Len(selectedWordArr)

\* C1: a non-empty candidate whose length differs from the target's (a strict
\* prefix of it, or longer than it) is never judged correct: the match
\* result is false.
LengthMismatchRejected ==
    (Checked /\ selectedWordArr # <<>> /\ ~SameLength) => event.result = "false"

\* C2: no user-facing action throws: whatever candidate the learner has
\* assembled from the offered buttons, checkAnswer runs to its end.
UserActionsNeverThrow == event.result # "throws"

\* C3: while a deferred advance is pending (Advancing), selectToken and
\* checkAnswer are rejected: such a step changes neither score, level nor
\* candidate.
AdvancingRejectsInput ==
    [][(timers # <<>> /\ event'.op \in {"selectToken", "checkAnswer"})
         => UNCHANGED <<score, currentLevel, selectedWordArr>>]_vars

\* C4: checkAnswer on an empty candidate yields the match result false for
\* every target, the empty target included, and is handled as a wrong answer:
\* retry feedback, score lowered by 5 but not below 0, no advance scheduled.
EmptyCandidateNeverCorrect ==
    [][(event'.op = "checkAnswer" /\ selectedWordArr = <<>>)
         => /\ event'.result = "false"
            /\ feedback' = FeedbackTryAgain
            /\ score' = (IF score >= 5 THEN score - 5 ELSE 0)
            /\ UNCHANGED <<currentLevel, selectedWordArr, timers>>]_vars

EmptyCandidateWitness ==
    /\ Checked
    /\ selectedWordArr = <<>>
    /\ currentPattern = <<>>
    /\ event.result = "false"
    /\ feedback = FeedbackTryAgain

\* C5: when every index holds two inflected tokens, the candidate matches iff
\* at every index caseGram and number agree; the noun declined and the surface
\* string take no part.
InflectedComparedByCaseAndNumber ==
    (/\ Checked
     /\ selectedWordArr # <<>>
     /\ SameLength
     /\ \A i \in Positions :
          isNounDeclined(selectedWordArr[i]) /\ isNounDeclined(currentPattern[i]))
    => (event.result = "true"
          <=> \A i \in Positions :
                /\ selectedWordArr[i].caseGram = currentPattern[i].caseGram
                /\ selectedWordArr[i].number = currentPattern[i].number)

InflectedDifferentNounWitness ==
    /\ Checked
    /\ Len(selectedWordArr) = 1
    /\ SameLength
    /\ isNounDeclined(selectedWordArr[1])
    /\ isNounDeclined(currentPattern[1])
    /\ selectedWordArr[1].declinations # currentPattern[1].declinations
    /\ selectedWordArr[1].value # currentPattern[1].value
    /\ event.result = "true"

\* C6: a candidate that holds, at some index of the target, a token of the
\* other kind (plain against inflected, either way round) does not match, even
\* when the two surface strings are equal.
DifferentKindsNeverMatch ==
    (/\ Checked
     /\ \E i \in Positions :
          /\ i <= Len(currentPattern)
          /\ isNounDeclined(selectedWordArr[i]) # isNounDeclined(currentPattern[i]))
    => event.result = "false"

DifferentKindsSameSurfaceWitness ==
    /\ Checked
    /\ selectedWordArr = <<WordSimple("cyning")>>
    /\ currentPattern = <<NounDeclined("cyning", "nominative", "singular")>>
    /\ event.result = "false"

\* C7: when every index holds two plain words, the candidate matches iff at
\* every index the two value strings are equal.
PlainComparedByValue ==
    (/\ Checked
     /\ selectedWordArr # <<>>
     /\ SameLength
     /\ \A i \in Positions :
          ~isNounDeclined(selectedWordArr[i]) /\ ~isNounDeclined(currentPattern[i]))
    => (event.result = "true"
          <=> \A i \in Positions : selectedWordArr[i].value = currentPattern[i].value)

PlainDifferentValueWitness ==
    /\ Checked
    /\ selectedWordArr = <<WordSimple("se"), WordSimple("cyning")>>
    /\ currentPattern = <<WordSimple("se"), WordSimple("se")>>
    /\ event.result = "false"

\* C8: a non-empty candidate equal to the target, token for token, matches;
\* so does scenario 1's own five-token sentence.
MatcherReflexive ==
    (Checked /\ selectedWordArr # <<>> /\ selectedWordArr = currentPattern)
    => event.result = "true"

Scenario1MatchesItselfWitness ==
    /\ Checked
    /\ scenarios = SCENARIOS
    /\ selectedWordArr = scenario1Pattern
    /\ Len(selectedWordArr) = 5
    /\ event.result = "true"

\* C9: a checkAnswer whose match result is false sets score to
\* max(0, score - 5), sets the retry feedback and leaves candidate and level
\* as they were.
WrongAnswerEffect ==
    [][(event'.op = "checkAnswer" /\ event'.result = "false")
         => /\ score' = (IF score >= 5 THEN score - 5 ELSE 0)
            /\ feedback' = FeedbackTryAgain
            /\ UNCHANGED <<selectedWordArr, currentLevel>>]_vars

WrongAnswerAboveFloorWitness ==
    /\ Checked
    /\ event.result = "false"
    /\ score = 5
    /\ feedback = FeedbackTryAgain
    /\ selectedWordArr # <<>>

\* C10 as stated: a checkAnswer whose match result is true adds 10 to score,
\* sets the success feedback and clears the candidate in that same step.
CorrectAnswerClearsCandidate ==
    [][(event'.op = "checkAnswer" /\ event'.result = "true")
         => /\ score' = score + 10
            /\ feedback' = FeedbackCorrect
            /\ selectedWordArr' = <<>>]_vars

\* C10 amended: a checkAnswer whose match result is true adds exactly 10 to
\* score, sets the success feedback, schedules the deferred advance and leaves
\* candidate and level as they were; the candidate is cleared by the deferred
\* advance when it runs.
CorrectAnswerEffect ==
    [][/\ (event'.op = "checkAnswer" /\ event'.result = "true")
            => /\ score' = score + 10
               /\ feedback' = FeedbackCorrect
               /\ timers' = Append(timers, currentLevel)
               /\ UNCHANGED <<selectedWordArr, currentLevel>>
       /\ event'.op = "advance" => selectedWordArr' = <<>>]_vars

CorrectAnswerKeepsCandidateWitness ==
    /\ Checked
    /\ event.result = "true"
    /\ score = 10
    /\ feedback = FeedbackCorrect
    /\ selectedWordArr = scenario1Pattern
    /\ timers = <<0>>

\* C11: score is never negative; and from score 0 the one matching checkAnswer
\* of a level takes score to 10, and a non-matching checkAnswer that follows
\* it directly (no other check in between) takes score to 5.
OneCorrectOneWrongGivesFive ==
    [][/\ score >= 0
       /\ score' >= 0
       /\ (event'.op = "checkAnswer" /\ event'.result = "true" /\ timers = <<>>)
            => (score = 0 /\ score' = 10)
       /\ (/\ event'.op = "checkAnswer"
           /\ event'.result = "false"
           /\ Len(timers) = 1
           /\ score = 10)
            => score' = 5]_vars

OneCorrectOneWrongWitness ==
    /\ Checked
    /\ event.result = "false"
    /\ Len(timers) = 1
    /\ currentLevel = 0
    /\ score = 5

\* C12: once currentLevel has reached the number of scenarios (Completed), no
\* selectToken, removeToken or checkAnswer happens any more and score and
\* level stay as they are.
Completed == currentLevel >= Len(scenarios)

CompletedIsTerminal ==
    [][Completed
         => /\ event'.op \notin {"selectToken", "removeToken", "checkAnswer"}
            /\ UNCHANGED <<score, currentLevel>>]_vars

CompletedWithStaleTimerWitness ==
    /\ Completed
    /\ currentLevel = Len(scenarios)
    /\ timers # <<>>
    /\ score = 20

\* C17: while the scenario is shown a selection can always be made (within
\* the bounds of the exploration), never throws, and appends the chosen
\* button's token at the end of the candidate: the entries already there keep
\* their places, score and level stay as they are.
SelectionPossible ==
    /\ Len(selectedWordArr) < Len(currentPattern) + MaxExtra
    /\ timers # <<>> => windowClicks < MaxWindowClicks

SelectTokenAppends ==
    /\ []((ScenarioShown /\ SelectionPossible) => ENABLED handleWordSelection)
    /\ [][event'.op = "selectToken"
            => /\ event'.result = "none"
               /\ Len(selectedWordArr') = Len(selectedWordArr) + 1
               /\ \A i \in 1..Len(selectedWordArr) :
                    selectedWordArr'[i] = selectedWordArr[i]
               /\ selectedWordArr'[Len(selectedWordArr')]
                    \in shuffledWordSimples \cup declensionButtons
               /\ UNCHANGED <<score, currentLevel>>]_vars

SelectTokenAppendsWitness ==
    /\ event.op = "selectToken"
    /\ Len(selectedWordArr) = 3
    /\ selectedWordArr[1] # selectedWordArr[3]
    /\ score = 10

\* C18: removing the entry at a position of the candidate takes out exactly
\* that entry: the candidate is one shorter, the entries before the position
\* keep their places, those after it move up by one, and score and level stay
\* as they are.
RemoveTokenRemovesOne ==
    [][event'.op = "removeToken"
         => /\ Len(selectedWordArr') = Len(selectedWordArr) - 1
            /\ \E index \in 1..Len(selectedWordArr) :
                 /\ \A i \in 1..(index - 1) : selectedWordArr'[i] = selectedWordArr[i]
                 /\ \A i \in index..Len(selectedWordArr') :
                      selectedWordArr'[i] = selectedWordArr[i + 1]
            /\ UNCHANGED <<score, currentLevel>>]_vars

RemoveTokenWitness ==
    /\ event.op = "removeToken"
    /\ Len(selectedWordArr) = 4
    /\ score = 0

\* C20: with the timer firing when due, a checkAnswer that matches at level L
\* is eventually followed by currentLevel = L + 1 (here the last level, so the
\* session is then Completed).
CorrectAnswerLeadsToNextLevel ==
    \A L \in 0..(Len(SCENARIOS) - 1) :
        (Checked /\ event.result = "true" /\ currentLevel = L) ~> (currentLevel = L + 1)

CorrectAnswerAdvancedWitness ==
    /\ event.op = "advance"
    /\ currentLevel = 1
    /\ Completed
    /\ score = 10
    /\ selectedWordArr = <<>>

Called(op) == input.op = op /\ output # NoCall

\* C13 as stated: building a declination fails whenever one of the strings
\* handed in for a case (singular, plural or dual) is empty or contains
\* whitespace; so a declination that was built has singular and plural for
\* each of nominative, accusative, genitive and dative.
DeclinationValidatesEveryForm ==
    Called("DeclinationOfNoun") =>
        /\ (\E c \in (GrammaticalCase \cup {"instrumental"}) \cap DOMAIN input.params :
               \E k \in DOMAIN input.params[c] :
                  \/ input.params[c][k] = ""
                  \/ containsWhitespace(input.params[c][k]))
             => output = Thrown
        /\ output # Thrown
             => \A c \in GrammaticalCase : {"singular", "plural"} \subseteq DOMAIN output[c]

\* C14: new WordSimple(str) succeeds exactly when str is not empty and holds
\* no whitespace, and then value is str; otherwise it throws and there is no
\* word.
WordAcceptsExactlyWords ==
    Called("WordSimple") =>
        IF input.str \in LetterStrings
        THEN output # Thrown /\ output.kind = "word" /\ output.value = input.str
        ELSE output = Thrown

WordRejectsWhitespaceWitness ==
    /\ Called("WordSimple")
    /\ input.str = "a "
    /\ output = Thrown

\* C15 as stated: over a declination that was built, new NounDeclined
\* resolves every (case, number) that was handed in to the constructor to
\* exactly the string handed in, and throws for every (case, number) that was
\* not, such as a dual on a noun without dual forms.
InflectedResolvesSeededForm ==
    Called("NounDeclined") =>
        LET forms == input.params[input.caseGram]
        IN  IF input.number \in DOMAIN forms
            THEN /\ output # Thrown
                 /\ output.value = forms[input.number]
                 /\ output.caseGram = input.caseGram
                 /\ output.number = input.number
            ELSE output = Thrown

\* C16 as stated: get(baseForm) returns the declination whose base.value is
\* baseForm when there is one, and fails with an error, not with undefined,
\* when there is none.
RegistryGetFailsWhenAbsent ==
    Called("get") =>
        IF input.key \in {cyningSeed.base, biscopSeed.base}
        THEN output \notin {Thrown, undefined} /\ output.base.value = input.key
        ELSE output = Thrown

\* C19: for a declination built with the four cases and no instrumental,
\* declinationTable has the four cases, each with the singular and plural
\* words handed in, and the key instrumental with the value undefined.
TableHasFourCasesAndAbsentInstrumental ==
    (Called("declinationTable") /\ "instrumental" \notin DOMAIN input.params) =>
        /\ DOMAIN output = GrammaticalCase \cup {"instrumental"}
        /\ output.instrumental = undefined
        /\ \A c \in GrammaticalCase :
             /\ output[c] # undefined
             /\ \A n \in {"singular", "plural"} :
                  input.params[c][n] # ""
                      => /\ n \in DOMAIN output[c]
                         /\ output[c][n].value = input.params[c][n]

TableOfSeedWitness ==
    /\ Called("declinationTable")
    /\ input.params = cyningSeed
    /\ output.instrumental = undefined
    /\ output.dative.plural.value = "cyningum"

\* C21: whenever the level changes, the candidate and the feedback are empty
\* in the state that results, whatever was selected, removed or checked
\* between the correct answer and the advance; the first level starts with
\* an empty candidate and no feedback as well.
LevelChangeClearsCandidate ==
    /\ (currentLevel = 0 /\ event.op = "init")
          => (selectedWordArr = <<>> /\ feedback = "")
    /\ [][currentLevel' # currentLevel
            => /\ selectedWordArr' = <<>>
               /\ feedback' = ""
               /\ event'.op = "advance"]_vars

LevelChangedAfterWindowClicksWitness ==
    /\ event.op = "advance"
    /\ currentLevel = 1
    /\ selectedWordArr = <<>>
    /\ feedback = ""
    /\ timers # <<>>
    /\ windowClicks = MaxWindowClicks

\* C22: under every interleaving of clicks and pending timer callbacks,
\* several of them set at the same level included, the level never goes
\* down, changes only by exactly one, and stays between 0 and the number of
\* scenarios.
LevelStepsByOneWithinRange ==
    /\ [](0 <= currentLevel /\ currentLevel <= Len(scenarios))
    /\ [][currentLevel' = currentLevel \/ currentLevel' = currentLevel + 1]_vars

ThreeCallbacksOneLevelWitness ==
    /\ event.op = "advance"
    /\ timers = <<>>
    /\ score = 30
    /\ currentLevel = 1

\* C23: checkAnswer runs only while the level is the index of a scenario:
\* once the level has reached the number of scenarios the handler cannot be
\* run any more, also with callbacks still pending or fired.
CheckAnswerOnlyWithinScenarios ==
    /\ [](~ScenarioShown => ~ENABLED checkAnswer)
    /\ [][event'.op = "checkAnswer"
            => /\ currentLevel < Len(scenarios)
               /\ currentScenario # undefined]_vars

NoCheckAfterAdvanceWitness ==
    /\ event.op = "advance"
    /\ currentLevel = Len(scenarios)
    /\ currentScenario = undefined
    /\ score = 10
    /\ ~ENABLED checkAnswer

====
